---- MODULE Spec2Model ----
(***************************************************************************)
(* State-machine model of uniapp-error-monitor.                            *)
(*                                                                         *)
(* The repository holds two implementations of the monitor:                *)
(*   "facade"     class ErrorMonitor with init() (src/unnamed/part_002),   *)
(*                reached through the free functions of src/src/index.js;  *)
(*   "standalone" class ErrorMonitor with initErrorMonitor()               *)
(*                (src/unnamed/part_003) and its own named exports.        *)
(* The variable impl fixes which one a behaviour runs; every formula is    *)
(* checked against both.                                                   *)
(*                                                                         *)
(* Host assumptions: the UniApp H5 host, where both `uni` and `window`     *)
(* are defined.  Host run mode, build mode and the VITE_WEBHOOK build      *)
(* variable are fixed for a whole behaviour.                               *)
(*                                                                         *)
(* Encodings: a statistics property that is absent (undefined) is -1;      *)
(* lastErrorTime = 0 is null; Date.now() returns a value in now..MaxNow,   *)
(* never below its previous value, and now holds the latest one.           *)
(***************************************************************************)
EXTENDS Integers, Sequences, FiniteSets, TLC

\* ------------------------------------------------------------- bounds
MaxEnvelopes == 2      \* envelopes created in one behaviour
MaxNow == 1            \* largest value Date.now() returns
MaxInits == 1          \* successful init calls in one behaviour
MaxReinits == 2        \* successful init calls in one behaviour of WideSpec
MaxLater == 2          \* largest value of Date.now() in TimeSpec
MaxRetriesOpt == 1     \* largest explicit maxRetries option

\* -------------------------------------------------- program constants
DefaultMaxRetries == 3
DefaultRetryDelay == 1000

Undefined == 0 - 1

VARIABLES
    impl,          \* which implementation runs
    hostMode,      \* uni.getSystemInfoSync().mode
    buildMode,     \* import.meta.env.MODE
    viteWebhook,   \* import.meta.env.VITE_WEBHOOK is a non-empty string
    config,        \* this.config (set = FALSE: null)
    installed,     \* capture adapters installed on the host
    wrapPromise,   \* this.wrapPromise: "null" or "closure"
    errorStats,    \* this.errorStats
    deliveries,    \* envelopes handed to delivery, by creation order
    nextId,        \* next free envelope slot
    now,           \* the latest value Date.now() returned
    inits,         \* successful init calls so far
    overrideCalls, \* history: setCustomSender / setCustomFormatter was called
    returned,      \* the object a caller keeps from getErrorStats
    peer,          \* a second monitor instance in the same host: its config and stats
    keep,          \* history switch: the messages handed to the transport are kept
    hook,          \* what the application's sender or formatter does when called
    outcome        \* history: the last operation and what it did

vars == <<impl, hostMode, buildMode, viteWebhook, config, installed, wrapPromise,
          errorStats, deliveries, nextId, now, inits, overrideCalls, returned,
          peer, keep, hook, outcome>>

Impls == {"facade", "standalone"}
HostModes == {"default", "develop"}
BuildModes == {"production"}

\* The seven documented error types.
ErrorTypes == {"global", "promise", "console", "miniProgram", "network", "api", "manual"}
\* Type tags a caller passes to reportError in this model.
ReportTags == {"manual", "mytag", "total"}
\* Shapes of the error argument of reportError.
\* "object" is a plain structure without extension fields, "apiError" a
\* plain structure with method and statusCode.
ErrorKinds == {"Error", "string", "object", "apiError", "null", "undefined"}
\* Property names of the errorStats object.
StatKeys == ErrorTypes \cup {"total", "lastErrorTime", "mytag"}
\* The per-type counters of a statistics object.
CounterKeys == StatKeys \ {"total", "lastErrorTime"}

Ids == 1..MaxEnvelopes
RetryOptions == (0..MaxRetriesOpt) \cup {DefaultMaxRetries}
\* Values of the retryDelay option, in milliseconds.
RetryDelays == {0, DefaultRetryDelay}

\* ------------------------------------------------------ configuration
NoConfig ==
    [set |-> FALSE, enableGlobalError |-> TRUE, enablePromiseError |-> TRUE,
     enableConsoleError |-> FALSE, webhookUrl |-> FALSE,
     maxRetries |-> DefaultMaxRetries, retryDelay |-> DefaultRetryDelay,
     forceEnable |-> FALSE,
     customFormatter |-> FALSE, customSender |-> FALSE,
     formatter |-> FALSE, sender |-> FALSE]

\* Which override keys an options object carries.
OverrideChoices == {"none", "sender", "formatter", "customSender", "customFormatter", "customBoth"}

\* The options objects init is called with; maxRetries or retryDelay
\* Undefined is an options object without that key.
InitOptions ==
    [webhookUrl : {"absent", "url"}, forceEnable : BOOLEAN,
     maxRetries : RetryOptions \cup {Undefined}, retryDelay : RetryDelays \cup {Undefined},
     enableGlobalError : BOOLEAN, enablePromiseError : BOOLEAN,
     enableConsoleError : BOOLEAN, override : OverrideChoices]

\* A merge that turns forceEnable on whatever the caller passed.
MergeForced(o) == [NoConfig EXCEPT !.set = TRUE, !.webhookUrl = TRUE, !.forceEnable = TRUE]

\* const config = { ...defaults, ...options }
MergeConfig(o) ==
    [set |-> TRUE,
     enableGlobalError |-> o.enableGlobalError,
     enablePromiseError |-> o.enablePromiseError,
     enableConsoleError |-> o.enableConsoleError,
     webhookUrl |-> IF o.webhookUrl = "url" THEN TRUE
                    ELSE IF impl = "facade" THEN FALSE ELSE viteWebhook,
     maxRetries |-> IF o.maxRetries = Undefined THEN DefaultMaxRetries ELSE o.maxRetries,
     retryDelay |-> IF o.retryDelay = Undefined THEN DefaultRetryDelay ELSE o.retryDelay,
     forceEnable |-> o.forceEnable,
     customFormatter |-> o.override \in {"customFormatter", "customBoth"},
     customSender |-> o.override \in {"customSender", "customBoth"},
     formatter |-> o.override = "formatter",
     sender |-> o.override = "sender"]

Opt(url, fe, mr, rd, g, p, c, ov) ==
    [webhookUrl |-> url, forceEnable |-> fe, maxRetries |-> mr, retryDelay |-> rd,
     enableGlobalError |-> g, enablePromiseError |-> p, enableConsoleError |-> c,
     override |-> ov]

\* The inputs the steps of Spec draw from.
Options ==
    {Opt("url", TRUE, 0, Undefined, TRUE, TRUE, FALSE, "none"),
     Opt("url", FALSE, MaxRetriesOpt, 0, TRUE, TRUE, FALSE, "sender"),
     Opt("absent", TRUE, MaxRetriesOpt, DefaultRetryDelay, TRUE, FALSE, FALSE, "customSender"),
     Opt("url", TRUE, Undefined, Undefined, FALSE, TRUE, TRUE, "customFormatter")}
Tags == {"manual", "total"}
Kinds == {"Error", "null"}
Events == {"request"}

\* ------------------------------------------------ environment classifier
\* What the host probe can meet: a run mode, a systemInfo without mode
\* ("unset"), no uni object ("absent"), getSystemInfoSync throwing ("throws").
EnvHostModes == {"default", "develop", "unset", "absent", "throws"}
\* What the build can give: a MODE string, an env object without MODE
\* ("nomode"), no import.meta.env object ("noenv").
EnvBuildModes == {"production", "development", "sandbox", "nomode", "noenv"}

\* systemInfo?.mode && systemInfo.mode !== 'default', inside try / catch
HostSaysNotDefault == hostMode \notin {"default", "unset", "absent", "throws"}

IsProductionFacade ==
    IF HostSaysNotDefault THEN FALSE
    ELSE IF buildMode \in {"development", "sandbox"} THEN FALSE
    ELSE TRUE

IsProductionStandalone ==
    IF HostSaysNotDefault THEN FALSE
    ELSE IF buildMode = "development" THEN FALSE
    ELSE TRUE

\* import.meta.env.MODE outside any try block, read when the host probe
\* was inconclusive: a TypeError when import.meta.env is undefined.
IsProductionRaises ==
    impl = "standalone" /\ ~HostSaysNotDefault /\ buildMode = "noenv"

IsProduction == IF impl = "facade" THEN IsProductionFacade ELSE IsProductionStandalone

\* -------------------------------------------------------- statistics
InitStats ==
    [k \in StatKeys |->
        IF k = "mytag" THEN Undefined
        ELSE IF k = "manual" /\ impl = "standalone" THEN Undefined
        ELSE 0]

\* x || 0
OrZero(x) == IF x <= 0 THEN 0 ELSE x

\* A statistics update that rebuilds the object around the latest type.
CountLatestOnly(stats, type, t) ==
    [[InitStats EXCEPT !["total"] = stats["total"] + 1, ![type] = 1]
        EXCEPT !["lastErrorTime"] = t]

\* total++ ; stats[type] = (stats[type] || 0) + 1 ; lastErrorTime = Date.now()
UpdateErrorStats(stats, type, t) ==
    LET s1 == [stats EXCEPT !["total"] = @ + 1]
        s2 == [s1 EXCEPT ![type] = OrZero(s1[type]) + 1]
    IN [s2 EXCEPT !["lastErrorTime"] = t]

\* An object a caller holds: shared says it is the monitor's own statistics
\* object, so that a write to either is seen through both.
NoObject == [held |-> FALSE, shared |-> FALSE, val |-> InitStats]

\* A returned object that is the monitor's statistics object itself.
LiveStats(stats) == [held |-> TRUE, shared |-> TRUE, val |-> stats]

\* return { ...this.errorStats }
CopyStats(stats) == [held |-> TRUE, shared |-> FALSE, val |-> stats]

\* ---------------------------------------------------------- deliveries
\* The lines of the statistics block of a formatted message.
BlockKeys ==
    {"total", "global", "promise", "console", "miniProgram", "api", "network"}
        \cup (IF impl = "facade" THEN {"manual"} ELSE {})

\* A message without a statistics block: the envelope handed to a custom
\* formatter or a custom sender.
NoBlock == [k \in BlockKeys |-> Undefined]

NoMessage == [type |-> "", ts |-> 0, block |-> NoBlock]

\* The payload-dependent fields of an envelope.  "raw" is the value the
\* payload had, "absent" a field that is missing or undefined, "null", ""
\* and "0" the literals; error is "message" (the exception's message) or the
\* payload itself, named by its kind.
NoBody == [error |-> "absent", stack |-> "absent", method |-> "absent",
           statusCode |-> "absent", lineno |-> "absent"]

\* An envelope builder that coerces every payload to a string.
BuildBodyAsString(kind) ==
    [NoBody EXCEPT !.error = IF kind = "Error" THEN "message" ELSE "string",
                   !.stack = IF kind = "Error" THEN "raw" ELSE "null"]

\* The errorInfo literal of reportError:
\*   error: error instanceof Error ? error.message : error,
\*   stack: error instanceof Error ? error.stack : null,
\*   method: error.method || ''      (standalone only),
\*   statusCode: error.statusCode
BuildBody(kind) ==
    [error |-> IF kind = "Error" THEN "message" ELSE kind,
     stack |-> IF kind = "Error" THEN "raw" ELSE "null",
     method |-> IF impl = "facade" THEN "absent"
                ELSE IF kind = "apiError" THEN "raw" ELSE "",
     statusCode |-> IF kind = "apiError" THEN "raw" ELSE "absent",
     lineno |-> "absent"]

\* type and ts are the fields of the errorInfo object; made keeps what they
\* were at creation, seen what the formatter and the transport read at the
\* latest attempt, and content the message of the latest attempt while the
\* delivery is under way, in behaviours that keep it.
Blank ==
    [type |-> "", origin |-> "", force |-> FALSE, retryCount |-> 0, phase |-> "none",
     via |-> "none", fmt |-> "none", attempts |-> 0, cfgSet |-> FALSE, delay |-> 0,
     ts |-> 0, made |-> [type |-> "", ts |-> 0], seen |-> [type |-> "", ts |-> 0],
     content |-> NoMessage, body |-> NoBody]

\* The mutable monitor state threaded through one handler run that reads the
\* clock as t.
Cur(t) ==
    [stats |-> errorStats, dl |-> deliveries, next |-> nextId, over |-> FALSE, t |-> t,
     peer |-> peer]

SetPhase(m, id, p) ==
    [m EXCEPT !.dl[id].phase = p,
              !.dl[id].content = IF p \in {"await", "timer"} THEN @ ELSE NoMessage]

\* A retry test that never says stop.
RetryForever(retryCount) == impl = "standalone"

\* this.config?.maxRetries || 3
EffectiveMaxRetries ==
    IF config.set /\ config.maxRetries > 0 THEN config.maxRetries ELSE DefaultMaxRetries

\* if (retryCount < (this.config?.maxRetries || 3)) setTimeout(...)
RetryAllowed(retryCount) == impl = "standalone" /\ retryCount < EffectiveMaxRetries

\* A message built at send time from the clock instead of the envelope.
StampAtSend(m, id) == [type |-> m.dl[id].type, ts |-> m.t]

\* What the formatter and the transport read from errorInfo.
ReadEnvelope(m, id) == [type |-> m.dl[id].type, ts |-> m.dl[id].ts]

\* _formatErrorMessage(errorInfo): the envelope's fields and the statistics
\* of the moment of the call.
FormatErrorMessage(m, id) ==
    [type |-> ReadEnvelope(m, id).type, ts |-> ReadEnvelope(m, id).ts,
     block |-> [k \in BlockKeys |-> m.stats[k]]]

\* One call of the transport: the default POST or the custom sender.
Invoke(m, id, via, fmt) ==
    LET formatted == IF fmt = "default" THEN FormatErrorMessage(m, id)
                     ELSE [FormatErrorMessage(m, id) EXCEPT !.block = NoBlock]
        message == IF keep THEN formatted ELSE NoMessage
    IN [m EXCEPT !.dl[id].phase = "await", !.dl[id].via = via, !.dl[id].fmt = fmt,
                 !.dl[id].attempts = @ + 1,
                 !.dl[id].seen = ReadEnvelope(m, id),
                 !.dl[id].content = message]

\* A new envelope (errorInfo); over marks a run that needs more envelopes
\* than the model holds.  An adapter's global envelope comes from
\* window.onerror called with all five arguments.
Alloc(m, type, origin, force) ==
    IF m.next > MaxEnvelopes THEN [m EXCEPT !.over = TRUE]
    ELSE [m EXCEPT !.dl[m.next] =
                      [Blank EXCEPT !.type = type, !.origin = origin, !.force = force,
                                    !.phase = "new", !.cfgSet = config.set,
                                    !.ts = m.t, !.made = [type |-> type, ts |-> m.t],
                                    !.body = IF origin = "adapter" /\ type = "global"
                                             THEN [NoBody EXCEPT !.lineno = "raw"]
                                             ELSE NoBody],
                   !.next = @ + 1]

\* A gate that reads the environment the wrong way round.
GateClosedInProduction(force) == ~force /\ IsProduction /\ ~(config.set /\ config.forceEnable)

\* if (!forceSend && !this._isProduction() && !this.config?.forceEnable) return
GateClosed(force) == ~force /\ ~IsProduction /\ ~(config.set /\ config.forceEnable)

\* A delivery that posts whatever the gate and the configuration say.
SendErrorAlwaysPosts(m, id, force) == Invoke(m, id, "post", "default")

RECURSIVE SendError(_, _, _)
RECURSIVE Handle(_, _, _, _)

\* A _handle*Error handler run n times (once per installed layer or listener):
\* count the error, build the envelope, hand it to delivery.
Handle(m, counter, type, n) ==
    IF n = 0 \/ m.over THEN m
    ELSE LET m1 == [m EXCEPT !.stats = UpdateErrorStats(m.stats, counter, m.t)]
             m2 == Alloc(m1, type, "adapter", FALSE)
             m3 == IF m2.over THEN m2 ELSE SendError(m2, m1.next, FALSE)
         IN Handle(m3, counter, type, n - 1)

\* console.error called by the monitor itself: every installed console layer
\* captures it.
ConsoleErrorCall(m) == Handle(m, "console", "console", installed.console)

\* A sender's exception that no catch block takes: the promise of
\* _sendError is rejected and nothing handles it.
EscapeThrow(m, id) == SetPhase(m, id, "unhandled")

\* try { await this.config.customSender(errorInfo) } catch (error) {
\* console.error(...) } when the sender throws before it returns a promise.
AbsorbThrow(m, id) == SetPhase(ConsoleErrorCall(m), id, "dropped")

\* this.config.customFormatter(errorInfo) throws inside _sendToWebhook: no
\* request is made, and _sendError awaits a promise that is rejected.
FormatterThrows(m, id) ==
    [m EXCEPT !.dl[id].phase = "await", !.dl[id].via = "format", !.dl[id].fmt = "custom",
              !.dl[id].seen = ReadEnvelope(m, id)]

\* _sendError / _sendToWebhook (facade), _sendErrorToWebhook (standalone),
\* up to the first await.
SendError(m, id, force) ==
    IF GateClosed(force) THEN SetPhase(m, id, "gated")
    ELSE IF impl = "facade" THEN
        IF config.set /\ config.customSender
        THEN IF hook = "throws" THEN AbsorbThrow(Invoke(m, id, "sender", "none"), id)
             ELSE Invoke(m, id, "sender", "none")
        ELSE IF ~(config.set /\ config.webhookUrl) THEN SetPhase(m, id, "nourl")
        ELSE IF config.customFormatter /\ hook = "throws" THEN FormatterThrows(m, id)
        ELSE Invoke(m, id, "post", IF config.customFormatter THEN "custom" ELSE "default")
    ELSE
        IF ~viteWebhook THEN ConsoleErrorCall(SetPhase(m, id, "nourl"))
        ELSE Invoke(m, id, "post", "default")

\* this.config?.retryDelay || 1000
EffectiveRetryDelay ==
    IF config.set /\ config.retryDelay > 0 THEN config.retryDelay ELSE DefaultRetryDelay

\* setTimeout(..., (this.config?.retryDelay || 1000) * (retryCount + 1))
SetTimer(m, id) ==
    [m EXCEPT !.dl[id].phase = "timer",
              !.dl[id].delay = EffectiveRetryDelay * (m.dl[id].retryCount + 1)]

\* A second instance before its init.
NoPeer == [set |-> FALSE, stats |-> InitStats]

\* The fail callback of the uni.request wrapper a second instance installed:
\* its _handleNetworkError counts the error in that instance's statistics.
PeerCaptures(m) ==
    IF m.peer.set
    THEN [m EXCEPT !.peer.stats = UpdateErrorStats(m.peer.stats, "network", m.t)]
    ELSE m

\* A failure that gives up every other delivery under way as well.
FailDeliveryCancelsOthers(m, id) ==
    [m EXCEPT !.dl = [j \in Ids |->
                        IF m.dl[j].phase \in {"await", "timer"}
                        THEN [m.dl[j] EXCEPT !.phase = "dropped", !.content = NoMessage]
                        ELSE m.dl[j]]]

\* The transport fails: the patched uni.request reports a network error per
\* layer, then the catch block of the delivery logs the failure and retries.
FailDelivery(m, id) ==
    LET m1 == IF m.dl[id].via = "post"
              THEN PeerCaptures(Handle(m, "network", "network", installed.request))
              ELSE m
        m2 == ConsoleErrorCall(m1)
    IN IF RetryAllowed(m.dl[id].retryCount)
       THEN SetTimer(m2, id)
       ELSE SetPhase(m2, id, "dropped")

Commit(m) ==
    /\ ~m.over
    /\ errorStats' = m.stats
    /\ deliveries' = m.dl
    /\ nextId' = m.next
    /\ now' = m.t
    /\ returned' = IF returned.shared THEN [returned EXCEPT !.val = m.stats] ELSE returned
    /\ peer' = m.peer

\* What the latest step showed its caller: nothing the model tracks, a raised
\* TypeError, or a result.
Returned == [op |-> "", raised |-> FALSE, res |-> ""]
Raised(op) == [op |-> op, raised |-> TRUE, res |-> "TypeError"]
Gave(op, res) == [op |-> op, raised |-> FALSE, res |-> res]

ClockTo(horizon) == now..horizon

Clock == ClockTo(MaxNow)

\* ------------------------------------------------------------- Init
InitOver(hosts, builds, keeps, hooks) ==
    /\ impl \in Impls
    /\ keep \in keeps
    /\ hook \in hooks
    /\ hostMode \in hosts
    /\ buildMode \in builds
    /\ viteWebhook \in (IF impl = "standalone" THEN BOOLEAN ELSE {FALSE})
    /\ config = NoConfig
    /\ installed = [onerror |-> FALSE, rejection |-> 0, console |-> 0,
                    uniError |-> 0, pageNotFound |-> 0, request |-> 0]
    /\ wrapPromise = "null"
    /\ errorStats = InitStats
    /\ deliveries = [i \in Ids |-> Blank]
    /\ nextId = 1
    /\ now = 1
    /\ inits = 0
    /\ overrideCalls = [sender |-> FALSE, formatter |-> FALSE]
    /\ returned = NoObject
    /\ peer = NoPeer
    /\ outcome = Returned

\* Application hooks that return normally: a sender whose promise the host
\* settles later, a formatter that gives a string.
InitWith(hosts, builds, keeps) == InitOver(hosts, builds, keeps, {"settles"})

Init == InitWith(HostModes, BuildModes, {FALSE})

Env == <<impl, hostMode, buildMode, viteWebhook, keep, hook>>

\* ----------------------------------------------------------- actions
\* init(options) / initErrorMonitor(options)
InitMonitor(o) ==
    LET c == MergeConfig(o)
        disabled == ~c.forceEnable /\ ~IsProduction
        unconfigured == impl = "standalone" /\ ~c.webhookUrl
        rejected == disabled \/ unconfigured
        promiseHook == IF impl = "facade" THEN c.enablePromiseError
                       ELSE c.enableGlobalError /\ c.enablePromiseError
    IN /\ IF rejected
          THEN UNCHANGED <<config, installed, wrapPromise, inits>>
          ELSE /\ config' = c
               /\ inits' = inits + 1
               /\ wrapPromise' = IF promiseHook THEN "closure" ELSE wrapPromise
               /\ installed' =
                    [onerror |-> installed.onerror \/ c.enableGlobalError,
                     rejection |-> installed.rejection + (IF c.enableGlobalError THEN 1 ELSE 0),
                     console |-> installed.console + (IF c.enableConsoleError THEN 1 ELSE 0),
                     uniError |-> installed.uniError + 1,
                     pageNotFound |-> installed.pageNotFound + 1,
                     request |-> installed.request + 1]
       /\ outcome' = Gave("init", IF disabled THEN "disabled"
                                  ELSE IF unconfigured THEN "unconfigured"
                                  ELSE "active")
       /\ UNCHANGED <<Env, errorStats, deliveries, nextId, now, overrideCalls, returned,
                      peer>>

\* A reportError that hands the envelope to delivery first and counts after.
ReportErrorSendFirst(type, kind, force, t) ==
    LET raises == kind \in {"null", "undefined"}
        m2 == Alloc(Cur(t), type, "manual", force)
        m3 == IF m2.over THEN m2
              ELSE SendError([m2 EXCEPT !.dl[nextId].body = BuildBody(kind)], nextId, force)
        m4 == [m3 EXCEPT !.stats = UpdateErrorStats(m3.stats, type, t)]
        m == IF raises THEN Cur(now) ELSE m4
    IN /\ Commit(m)
       /\ outcome' = IF raises THEN Raised("reportError") ELSE Returned
       /\ UNCHANGED <<Env, config, installed, wrapPromise, inits, overrideCalls>>

\* reportError(type, error, context, forceSend)
ReportError(type, kind, force, t) ==
    LET raises == kind \in {"null", "undefined"}
        m1 == [Cur(t) EXCEPT !.stats = UpdateErrorStats(errorStats, type, t)]
        m2 == Alloc(m1, type, "manual", force)
        m3 == IF m2.over THEN m2
              ELSE SendError([m2 EXCEPT !.dl[nextId].body = BuildBody(kind)], nextId, force)
        m == IF raises THEN Cur(now) ELSE m3
    IN /\ Commit(m)
       /\ outcome' = IF raises THEN Raised("reportError") ELSE Returned
       /\ UNCHANGED <<Env, config, installed, wrapPromise, inits, overrideCalls>>

\* wrapPromise(promise), with the promise settling as settle says
WrapPromise(settle, t) ==
    LET raises == impl = "facade" /\ wrapPromise = "null"
        m == IF wrapPromise = "closure" /\ settle = "reject"
             THEN Handle(Cur(t), "promise", "promise", 1)
             ELSE Cur(now)
        res == IF settle = "reject" THEN "rejectE" ELSE "resolveV"
    IN /\ Commit(m)
       /\ outcome' = IF raises THEN Raised("wrapPromise") ELSE Gave("wrapPromise", res)
       /\ UNCHANGED <<Env, config, installed, wrapPromise, inits, overrideCalls>>

\* What a caller does with the object getErrorStats returned.
Uses == {"discard", "keep", "mutate"}

\* getErrorStats(), after which the caller drops the object, keeps it, or
\* keeps it and adds one to its total.
GetErrorStats(use) ==
    LET got == CopyStats(errorStats)
        written == [got EXCEPT !.val["total"] = @ + 1]
    IN /\ returned' = CASE use = "discard" -> returned
                         [] use = "keep" -> got
                         [] use = "mutate" -> written
       /\ errorStats' = IF use = "mutate" /\ got.shared THEN written.val ELSE errorStats
       /\ outcome' = Returned
       /\ UNCHANGED <<Env, config, installed, wrapPromise, deliveries, nextId, now, inits,
                      overrideCalls, peer>>

\* A reset that zeroes the counters and leaves the time of the last error.
ResetCountersOnly ==
    /\ errorStats' = [InitStats EXCEPT !["lastErrorTime"] = errorStats["lastErrorTime"]]
    /\ returned' = [returned EXCEPT !.shared = FALSE]
    /\ outcome' = Returned
    /\ UNCHANGED <<Env, config, installed, wrapPromise, deliveries, nextId, now, inits,
                   overrideCalls, peer>>

\* resetErrorStats()
ResetErrorStats ==
    /\ errorStats' = InitStats
    /\ returned' = [returned EXCEPT !.shared = FALSE]
    /\ outcome' = Returned
    /\ UNCHANGED <<Env, config, installed, wrapPromise, deliveries, nextId, now, inits,
                   overrideCalls, peer>>

\* getEnvironmentInfo()
GetEnvironmentInfo ==
    /\ outcome' = IF IsProductionRaises THEN Raised("getEnvironmentInfo")
                  ELSE Gave("getEnvironmentInfo",
                            IF IsProduction THEN "production" ELSE "notProduction")
    /\ UNCHANGED <<Env, config, installed, wrapPromise, errorStats, deliveries, nextId,
                   now, inits, overrideCalls, returned, peer>>

\* setCustomSender(fn) / setCustomFormatter(fn): the facade calls setSender /
\* setFormatter on the instance, and the class defines neither.
SetOverride(which) ==
    /\ impl = "facade"
    /\ overrideCalls' = [overrideCalls EXCEPT ![which] = TRUE]
    /\ outcome' = Raised(IF which = "sender" THEN "setCustomSender" ELSE "setCustomFormatter")
    /\ UNCHANGED <<Env, config, installed, wrapPromise, errorStats, deliveries, nextId,
                   now, inits, returned, peer>>

\* A fault observed by an installed capture adapter.
AdapterEvents == {"onerror", "unhandledrejection", "console", "uniError", "pageNotFound", "request"}

AdapterLayers(ev) ==
    CASE ev = "onerror" -> IF installed.onerror THEN 1 ELSE 0
      [] ev = "unhandledrejection" -> installed.rejection
      [] ev = "console" -> installed.console
      [] ev = "uniError" -> installed.uniError
      [] ev = "pageNotFound" -> installed.pageNotFound
      [] ev = "request" -> installed.request

AdapterCounter(ev) ==
    CASE ev = "onerror" -> "global"
      [] ev = "unhandledrejection" -> "promise"
      [] ev = "console" -> "console"
      [] ev = "uniError" -> "miniProgram"
      [] ev = "pageNotFound" -> "miniProgram"
      [] ev = "request" -> "network"

AdapterType(ev) == IF ev = "pageNotFound" THEN "pageNotFound" ELSE AdapterCounter(ev)

AdapterEvent(ev, t) ==
    /\ AdapterLayers(ev) > 0
    /\ Commit(Handle(Cur(t), AdapterCounter(ev), AdapterType(ev), AdapterLayers(ev)))
    /\ outcome' = Returned
    /\ UNCHANGED <<Env, config, installed, wrapPromise, inits, overrideCalls>>

\* The options objects an application hands to uni.request: a key it leaves
\* out is "absent", a callback it passes is "caller".
RequestOptions ==
    [url : {"/api"}, method : {"POST", "absent"}, data : {"payload", "absent"},
     success : {"caller", "absent"}, fail : {"caller", "absent"}]

RECURSIVE PassedOptions(_, _)
RECURSIVE FailCallsRecordFirst(_, _)
RECURSIVE FailCalls(_, _)

\* originalRequest({ ...options, fail: err => {...} }) through n stacked
\* wrappers: what the host's own request function receives.
PassedOptions(n, options) ==
    IF n = 0 THEN options
    ELSE [PassedOptions(n - 1, options) EXCEPT !.fail = "wrapper"]

\* A fail callback that records the network error before it calls the
\* caller's callback.
FailCallsRecordFirst(n, options) ==
    IF n = 0
    THEN IF options.fail = "caller" THEN <<[call |-> "fail", arg |-> "err"]>> ELSE <<>>
    ELSE <<[call |-> "_handleNetworkError", arg |-> "err"]>>
         \o FailCallsRecordFirst(n - 1, options)

\* fail: err => { options.fail && options.fail(err); this._handleNetworkError({...}) }
\* The calls made, in order, when the host calls the fail callback it was
\* given with err: each wrapper first calls the fail of the options it
\* received, then records.
FailCalls(n, options) ==
    IF n = 0
    THEN IF options.fail = "caller" THEN <<[call |-> "fail", arg |-> "err"]>> ELSE <<>>
    ELSE FailCalls(n - 1, options)
         \o <<[call |-> "_handleNetworkError", arg |-> "err"]>>

\* The application calls the patched uni.request(options) and the host
\* completes the request: res tells what the original request function
\* received and which callbacks ran.
AppRequest(options, result, t) ==
    LET n == installed.request
        m == IF result = "fail" THEN Handle(Cur(t), "network", "network", n) ELSE Cur(now)
        calls == IF result = "fail" THEN FailCalls(n, options)
                 ELSE IF options.success = "caller"
                      THEN <<[call |-> "success", arg |-> "res"]>> ELSE <<>>
    IN /\ n > 0
       /\ Commit(m)
       /\ outcome' = [op |-> "request", raised |-> FALSE, res |-> result,
                      options |-> options, passed |-> PassedOptions(n, options),
                      calls |-> calls]
       /\ UNCHANGED <<Env, config, installed, wrapPromise, inits, overrideCalls>>

\* init({ forceEnable: true }) on the second instance: its uni.request
\* wrapper goes around whatever is installed.
PeerInit ==
    /\ ~peer.set
    /\ peer' = [peer EXCEPT !.set = TRUE]
    /\ outcome' = Returned
    /\ UNCHANGED <<Env, config, installed, wrapPromise, errorStats, deliveries, nextId,
                   now, inits, overrideCalls, returned>>

\* Values handed to serializeError.  "circularObject" is a plain object that
\* refers to itself, "circularArray" an array that holds itself,
\* "bareCircularObject" a self-referring object without prototype
\* (Object.create(null)).
SerialValues ==
    {"Error", "string", "number", "undefined", "null", "plainObject",
     "circularObject", "circularArray", "bareCircularObject"}

\* JSON.stringify(error, null, 2) throws
JsonStringifyThrows(v) == v \in {"circularObject", "circularArray", "bareCircularObject"}

\* String(error): the text, or "TypeError" when the coercion throws.  An
\* array that holds itself joins to the empty string; an object without
\* prototype has no toString to call.
StringOf(v) ==
    CASE v \in {"plainObject", "circularObject"} -> "[object Object]"
      [] v = "circularArray" -> ""
      [] v = "bareCircularObject" -> "TypeError"
      [] OTHER -> v

StringRaises(v) == v = "bareCircularObject"

\* serializeError(error)
SerializeError(v) ==
    IF v = "Error" THEN Gave("serializeError", "nameMessageStack")
    ELSE IF v \notin {"string", "number", "undefined", "null"} /\ ~JsonStringifyThrows(v)
         THEN Gave("serializeError", "json")
    ELSE IF StringRaises(v) THEN Raised("serializeError")
    ELSE Gave("serializeError", StringOf(v))

\* A call of the exported serializeError.
CallSerializeError(v) ==
    /\ outcome' = SerializeError(v)
    /\ UNCHANGED <<Env, config, installed, wrapPromise, errorStats, deliveries, nextId,
                   now, inits, overrideCalls, returned, peer>>

\* A success branch that sets the retry timer all the same.
SucceedAndRetry(id) ==
    /\ deliveries[id].phase = "await"
    /\ Commit(SetTimer(Cur(now), id))
    /\ outcome' = Returned
    /\ UNCHANGED <<Env, config, installed, wrapPromise, inits, overrideCalls>>

\* The transport call of delivery id completes.
TransportSucceed(id) ==
    /\ deliveries[id].phase = "await"
    /\ deliveries[id].via # "format"
    /\ Commit(SetPhase(Cur(now), id, "sent"))
    /\ outcome' = Returned
    /\ UNCHANGED <<Env, config, installed, wrapPromise, inits, overrideCalls>>

\* The transport call of delivery id fails.
TransportFail(id, t) ==
    /\ deliveries[id].phase = "await"
    /\ Commit(FailDelivery(Cur(t), id))
    /\ outcome' = Returned
    /\ UNCHANGED <<Env, config, installed, wrapPromise, inits, overrideCalls>>

\* The retry timer of delivery id fires: _sendErrorToWebhook(errorInfo, retryCount + 1)
TimerFire(id, t) ==
    /\ deliveries[id].phase = "timer"
    /\ Commit(SendError([Cur(t) EXCEPT !.dl[id].retryCount = @ + 1], id, FALSE))
    /\ outcome' = Returned
    /\ UNCHANGED <<Env, config, installed, wrapPromise, inits, overrideCalls>>

\* The steps of the monitor with its inputs drawn from the given sets.
NextWith(opts, tags, kinds, events, uses, budget, horizon) ==
    \/ \E o \in opts : inits < budget /\ InitMonitor(o)
    \/ \E ty \in tags, k \in kinds, f \in BOOLEAN, t \in ClockTo(horizon) : ReportError(ty, k, f, t)
    \/ \E s \in {"resolve", "reject"}, t \in ClockTo(horizon) : WrapPromise(s, t)
    \/ \E u \in uses : GetErrorStats(u)
    \/ ResetErrorStats
    \/ GetEnvironmentInfo
    \/ \E w \in {"sender", "formatter"} : SetOverride(w)
    \/ \E ev \in events, t \in ClockTo(horizon) : AdapterEvent(ev, t)
    \/ \E id \in Ids : TransportSucceed(id)
    \/ \E id \in Ids, t \in ClockTo(horizon) : TransportFail(id, t)
    \/ \E id \in Ids, t \in ClockTo(horizon) : TimerFire(id, t)

Next == NextWith(Options, Tags, Kinds, Events, {"discard"}, MaxInits, MaxNow)

Spec == Init /\ [][Next]_vars

\* The host settles every transport call (uni.request calls success or fail,
\* the sender's promise settles) and fires every timer it was given.
HostFairness ==
    \A id \in Ids :
        /\ WF_vars(TransportSucceed(id) \/ \E t \in Clock : TransportFail(id, t))
        /\ WF_vars(\E t \in Clock : TimerFire(id, t))

\* Two options objects, with and without a destination, one tag, one error
\* shape: the steps of FairSpec.
FairOptions ==
    {Opt("url", TRUE, MaxRetriesOpt, Undefined, TRUE, TRUE, FALSE, "none"),
     Opt("absent", TRUE, MaxRetriesOpt, Undefined, TRUE, TRUE, FALSE, "none")}

FairNext == NextWith(FairOptions, {"manual"}, {"Error"}, Events, {"discard"}, MaxInits, MaxNow)

FairSpec == Init /\ [][FairNext]_vars /\ HostFairness

\* The environment classifier over every host and build condition.
EnvInit == InitWith(EnvHostModes, EnvBuildModes, {FALSE})

EnvNext == GetEnvironmentInfo

EnvSpec == EnvInit /\ [][EnvNext]_vars

\* The serializer over every class of value.
SerialNext == \E v \in SerialValues : CallSerializeError(v)

SerialSpec == EnvInit /\ [][SerialNext]_vars

\* Reports with every shape of payload that reportError accepts.
Shapes == {"Error", "string", "object", "apiError"}

ShapeOptions == {Opt("url", TRUE, MaxRetriesOpt, Undefined, TRUE, TRUE, FALSE, "none")}

ShapeNext ==
    \/ \E o \in ShapeOptions : inits < MaxInits /\ InitMonitor(o)
    \/ \E k \in Shapes, f \in BOOLEAN, t \in Clock : ReportError("manual", k, f, t)
    \/ \E id \in Ids : TransportSucceed(id)
    \/ \E id \in Ids, t \in Clock : TransportFail(id, t)
    \/ \E id \in Ids, t \in Clock : TimerFire(id, t)

ShapeSpec == Init /\ [][ShapeNext]_vars

\* A clock that advances between the attempts of a delivery.
TimeNext == NextWith(FairOptions, {"manual"}, {"Error"}, Events, {"discard"}, MaxInits, MaxLater)

TimeInit == InitWith(HostModes, BuildModes, {TRUE})

TimeSpec == TimeInit /\ [][TimeNext]_vars

\* Two monitor instances in one host.
PeerNext == FairNext \/ PeerInit

PeerSpec == Init /\ [][PeerNext]_vars

\* Callers that keep and write to the objects getErrorStats gives them.
StatsNext == NextWith(FairOptions, {"manual"}, {"Error"}, Events, Uses, MaxInits, MaxNow)

StatsSpec == Init /\ [][StatsNext]_vars

\* Application hooks that throw when called, next to hooks that return.
HookOptions ==
    {Opt("absent", TRUE, MaxRetriesOpt, Undefined, TRUE, TRUE, FALSE, "customSender"),
     Opt("url", TRUE, MaxRetriesOpt, Undefined, TRUE, TRUE, FALSE, "customFormatter")}

HookInit == InitOver(HostModes, BuildModes, {FALSE}, {"settles", "throws"})

HookNext ==
    \/ \E o \in HookOptions : inits < MaxInits /\ InitMonitor(o)
    \/ \E f \in BOOLEAN, t \in Clock : ReportError("manual", "Error", f, t)
    \/ \E id \in Ids : TransportSucceed(id)
    \/ \E id \in Ids, t \in Clock : TransportFail(id, t)
    \/ \E id \in Ids, t \in Clock : TimerFire(id, t)

HookSpec == HookInit /\ [][HookNext]_vars

\* An application that makes its own requests through the patched
\* uni.request, after one init or several.
RequestNext ==
    \/ \E o \in FairOptions : inits < MaxReinits /\ InitMonitor(o)
    \/ \E options \in RequestOptions, result \in {"success", "fail"}, t \in Clock :
          AppRequest(options, result, t)
    \/ \E id \in Ids : TransportSucceed(id)
    \/ \E id \in Ids, t \in Clock : TransportFail(id, t)
    \/ \E id \in Ids, t \in Clock : TimerFire(id, t)

RequestSpec == Init /\ [][RequestNext]_vars

\* Reports under type tags that name the statistics object's own total and
\* lastErrorTime keys, every adapter event, and resets in between.
StampTags == {"manual", "total", "lastErrorTime"}

StampNext ==
    NextWith(ShapeOptions, StampTags, {"Error", "null"}, AdapterEvents, {"discard"},
             MaxInits, MaxNow)

StampSpec == Init /\ [][StampNext]_vars

\* Two options objects that differ in every field a second init could
\* change, and every adapter event.
WideOptions ==
    {Opt("url", TRUE, 0, Undefined, TRUE, FALSE, FALSE, "none"),
     Opt("url", TRUE, MaxRetriesOpt, 0, FALSE, TRUE, TRUE, "customSender")}

WideNext == NextWith(WideOptions, {"manual"}, {"Error"}, AdapterEvents, {"discard"}, MaxReinits, MaxNow)

WideSpec == Init /\ [][WideNext]_vars

\* ------------------------------------------------------------ claims
Created(id) == deliveries[id].phase # "none"

\* The gate at the start of every delivery is closed for unforced reports.
GatingClosed == ~IsProduction /\ ~(config.set /\ config.forceEnable)

\* Envelopes built under the configuration that is active now.
UnderConfig(id) == Created(id) /\ deliveries[id].cfgSet /\ config.set

\* x || 0 summed over the per-type counters
CounterSum(stats) ==
    OrZero(stats["global"]) + OrZero(stats["promise"]) + OrZero(stats["console"])
    + OrZero(stats["miniProgram"]) + OrZero(stats["api"]) + OrZero(stats["network"])
    + OrZero(stats["manual"]) + OrZero(stats["mytag"])

\* C1: when every transport call fails, a delivery started after a successful
\* init ends after exactly maxRetries + 1 transport calls, for every
\* maxRetries >= 0 (a delivery never makes more calls than that, and one that
\* was dropped made exactly that many).
C1_ExactlyMaxRetriesPlusOne ==
    \A id \in Ids :
        UnderConfig(id) =>
            /\ deliveries[id].attempts <= config.maxRetries + 1
            /\ deliveries[id].phase = "dropped" =>
                   deliveries[id].attempts = config.maxRetries + 1

\* C2: while the environment is not production and no active configuration
\* has forceEnable, every report made without forceSend counts in the
\* statistics, ends its delivery at the gate with no transport call and no
\* retry timer, and no later step revives the delivery of an unforced report
\* that stopped at the gate.
C2_ClosedGateNoTransport ==
    [][\A id \in Ids :
          /\ (GatingClosed /\ ~Created(id) /\ deliveries'[id].phase # "none"
                /\ ~deliveries'[id].force)
             => /\ deliveries'[id].phase = "gated"
                /\ deliveries'[id].attempts = 0
                /\ errorStats'["total"] > errorStats["total"]
                /\ errorStats'["lastErrorTime"] = now'
          /\ (deliveries[id].phase = "gated" /\ ~deliveries[id].force)
             => /\ deliveries'[id] = deliveries[id]
                /\ deliveries[id].attempts = 0]_vars

\* C2 witness: outside production, with no forceEnable configuration, an
\* unforced manual report was counted and its delivery stopped at the gate.
C2_Witness ==
    /\ GatingClosed
    /\ errorStats["total"] >= 1
    /\ \E id \in Ids :
         /\ deliveries[id].origin = "manual"
         /\ ~deliveries[id].force
         /\ deliveries[id].phase = "gated"
         /\ deliveries[id].attempts = 0

\* C3: a delivery that passes the gate while a destination or a sender is
\* configured has made one transport call for its first attempt and one for
\* each retry.
C3_OneCallPerAttempt ==
    \A id \in Ids :
        (/\ UnderConfig(id)
         /\ deliveries[id].force \/ IsProduction \/ config.forceEnable
         /\ config.webhookUrl \/ config.customSender)
        => deliveries[id].attempts = deliveries[id].retryCount + 1

\* C4: the total of the statistics equals the sum of the per-type counters.
C4_TotalIsSumOfCounters == errorStats["total"] = CounterSum(errorStats)

\* C5: a reportError call that returns raises total by one and the counter of
\* its tag by one, sets lastErrorTime to the current time, and leaves every
\* other counter as it was.
C5_ReportCountsOnce ==
    [][\A ty \in Tags, f \in BOOLEAN, t \in Clock :
          ReportError(ty, "Error", f, t) =>
              /\ errorStats'["total"] = errorStats["total"] + 1
              /\ ty \in CounterKeys => errorStats'[ty] = OrZero(errorStats[ty]) + 1
              /\ errorStats'["lastErrorTime"] = t
              /\ \A k \in CounterKeys \ {ty} : errorStats'[k] = errorStats[k]]_vars

\* C6: wrapPromise(p) with p rejecting with E returns a promise that rejects
\* with E and raises the promise counter and total by exactly one, in every
\* state of the monitor.
C6_WrapPromiseCountsRejection ==
    [][\A t \in Clock :
          WrapPromise("reject", t) =>
              /\ outcome' = Gave("wrapPromise", "rejectE")
              /\ errorStats'["promise"] = errorStats["promise"] + 1
              /\ errorStats'["total"] = errorStats["total"] + 1]_vars

\* C7: reportError returns normally for every error value, null and undefined
\* included, and records the report.
C7_ReportErrorReturns ==
    [][\A ty \in Tags, k \in Kinds, f \in BOOLEAN, t \in Clock :
          ReportError(ty, k, f, t) =>
              /\ ~outcome'.raised
              /\ errorStats'["total"] > errorStats["total"]]_vars

\* C8: while no configuration is active (before init, or after an init that
\* was rejected), no public operation raises.
C8_NoRaiseWithoutConfig == ~config.set => ~outcome.raised

\* C9: once setCustomSender was called, every transport call made afterwards
\* goes to the custom sender; once setCustomFormatter was called, every
\* message posted afterwards comes from the custom formatter.
C9_OverridesUsed ==
    [][\A id \in Ids :
          deliveries'[id].attempts > deliveries[id].attempts =>
              /\ overrideCalls.sender => deliveries'[id].via = "sender"
              /\ (overrideCalls.formatter /\ deliveries'[id].via = "post")
                 => deliveries'[id].fmt = "custom"]_vars

\* C10: every transport call of a delivery carries a message built by the
\* configured formatter, or by the default one when none is configured, and
\* goes to the configured sender, or to the default POST when none is.
C10_FormatterThenSender ==
    \A id \in Ids :
        (UnderConfig(id) /\ deliveries[id].attempts >= 1) =>
            /\ deliveries[id].fmt = (IF config.customFormatter THEN "custom" ELSE "default")
            /\ deliveries[id].via = (IF config.customSender THEN "sender" ELSE "post")

\* C11: a delivery whose attempt number k failed with k < maxRetries waits on
\* a retry timer whose delay is exactly retryDelay * (k + 1) milliseconds, for
\* every configured retryDelay >= 0.
C11_LinearRetryDelay ==
    \A id \in Ids :
        (/\ UnderConfig(id)
         /\ deliveries[id].phase \in {"timer", "dropped"}
         /\ deliveries[id].retryCount < config.maxRetries)
        => /\ deliveries[id].phase = "timer"
           /\ deliveries[id].delay = config.retryDelay * (deliveries[id].retryCount + 1)

\* A delivery that will take no further step.
Final(id) == deliveries[id].phase \in {"sent", "gated", "nourl", "dropped"}

\* The largest number of retries any configuration of the model allows.
RetryCap == IF MaxRetriesOpt > DefaultMaxRetries THEN MaxRetriesOpt ELSE DefaultMaxRetries

\* C12: every delivery terminates: whatever transport calls fail, each envelope
\* makes a bounded number of attempts and reaches a final state (delivered,
\* stopped at the gate, failed for want of a destination, or dropped), and a
\* dropped envelope is never touched again.
C12_EveryDeliveryTerminates ==
    /\ [](\A id \in Ids : deliveries[id].attempts <= RetryCap + 1)
    /\ [][\A id \in Ids :
            deliveries[id].phase = "dropped" => deliveries'[id] = deliveries[id]]_vars
    /\ \A id \in Ids : Created(id) ~> Final(id)

\* C12 witness: an envelope was retried until the last allowed attempt failed
\* and was then dropped.
C12_Witness ==
    \E id \in Ids :
        /\ deliveries[id].phase = "dropped"
        /\ deliveries[id].retryCount >= 1
        /\ deliveries[id].attempts = deliveries[id].retryCount + 1

\* Neither a webhook URL (option or build variable) nor a custom sender.
NoDestination ==
    ~viteWebhook /\ ~(config.set /\ (config.webhookUrl \/ config.customSender))

\* C13: with no destination and no custom sender, a delivery that passes the
\* gate ends at once as a failure with no transport call and no retry timer,
\* whatever maxRetries is, and stays so.
C13_NoDestinationFailsAtOnce ==
    [][\A id \in Ids :
          /\ (NoDestination /\ ~Created(id) /\ deliveries'[id].phase \notin {"none", "gated"})
             => /\ deliveries'[id].phase = "nourl"
                /\ deliveries'[id].attempts = 0
                /\ deliveries'[id].delay = 0
          /\ (NoDestination /\ deliveries[id].phase = "nourl")
             => deliveries'[id].phase = "nourl" /\ deliveries'[id].attempts = 0]_vars

\* C13 witness: an active configuration with retries allowed and no
\* destination, and a delivery that passed the gate and failed without a
\* transport call.
C13_Witness ==
    /\ NoDestination
    /\ config.set
    /\ config.maxRetries >= 1
    /\ \E id \in Ids :
         /\ deliveries[id].phase = "nourl"
         /\ deliveries[id].attempts = 0
         /\ deliveries[id].cfgSet

\* Statistics as a fresh monitor shows them: every counter zero or absent,
\* lastErrorTime null.
ZeroStats(stats) ==
    /\ stats["total"] = 0
    /\ \A k \in CounterKeys : OrZero(stats[k]) = 0
    /\ stats["lastErrorTime"] = 0

\* A step of a delivery already under way: its transport call settles or its
\* retry timer fires.
DeliveryStep ==
    \E id \in Ids :
        \/ TransportSucceed(id)
        \/ \E t \in Clock : TransportFail(id, t) \/ TimerFire(id, t)

\* C14: resetErrorStats leaves total and every counter at zero and
\* lastErrorTime null, and until the next report or application fault they
\* stay so while deliveries started earlier succeed, fail or retry.
C14_ResetStaysZero ==
    [][/\ ResetErrorStats => ZeroStats(errorStats')
       /\ (ZeroStats(errorStats) /\ DeliveryStep) => ZeroStats(errorStats')]_vars

\* C15: getErrorStats returns a copy.  A caller's write to the object it
\* was given leaves the monitor's statistics as they were, the object given
\* holds the statistics of the moment of the call, and an object a caller
\* holds changes only by that caller's own write: no later report, fault,
\* reset or delivery outcome changes it.
C15_GetErrorStatsReturnsCopy ==
    [][/\ (\E u \in Uses : GetErrorStats(u)) => errorStats' = errorStats
       /\ GetErrorStats("keep") => returned'.val = errorStats
       /\ (returned.held /\ returned'.val # returned.val)
             => GetErrorStats("keep") \/ GetErrorStats("mutate")]_vars

C15_Witness ==
    /\ returned.held
    /\ errorStats["total"] >= 1
    /\ returned.val["total"] > errorStats["total"]
    /\ \E id \in Ids : deliveries[id].phase \in {"await", "timer"}

\* C16: between two resets the statistics only grow.  Every step other than
\* resetErrorStats (a report, an adapter event, an init call, a transport
\* outcome, a retry timer) leaves total and every per-type counter at least
\* as large as it was.
C16_CountersNeverDecrease ==
    [][ResetErrorStats
       \/ \A k \in CounterKeys \cup {"total"} : OrZero(errorStats'[k]) >= OrZero(errorStats[k])]_vars

C16_Witness ==
    /\ config.set
    /\ errorStats["network"] >= 1
    /\ OrZero(errorStats["manual"]) >= 1
    /\ errorStats["total"] >= 2
    /\ \E id \in Ids : deliveries[id].phase \in {"sent", "dropped", "timer"}

\* C17: an init call in a non-production environment whose forceEnable is
\* false changes nothing: no configuration is stored (the environment info
\* keeps reporting the monitor as not enabled), no adapter is installed,
\* the promise wrapper stays as it was, and the statistics and the
\* deliveries are untouched.
C17_DisabledInitChangesNothing ==
    [][\A o \in Options :
          (InitMonitor(o) /\ ~o.forceEnable /\ ~IsProduction)
          => /\ UNCHANGED <<config, installed, wrapPromise, errorStats, deliveries,
                            nextId, overrideCalls, inits>>
             /\ ~config.set => ~config'.set]_vars

C17_Witness ==
    /\ outcome = Gave("init", "disabled")
    /\ ~IsProduction
    /\ ~config.set
    /\ errorStats["total"] >= 1
    /\ ~installed.onerror
    /\ installed.request = 0

\* C18: after an init that activates the monitor, the stored configuration
\* has the caller's value for every field the caller passed and the
\* documented default for every field it left out (maxRetries 3,
\* retryDelay 1000), and the retry limit and the base delay that the
\* delivery pipeline reads are the stored maxRetries and retryDelay.
C18_StoredConfigIsApplied ==
    [][\A o \in Options :
          (InitMonitor(o) /\ inits' = inits + 1)
          => /\ config'.set
             /\ config'.enableGlobalError = o.enableGlobalError
             /\ config'.enablePromiseError = o.enablePromiseError
             /\ config'.enableConsoleError = o.enableConsoleError
             /\ config'.forceEnable = o.forceEnable
             /\ config'.maxRetries = (IF o.maxRetries = Undefined THEN 3 ELSE o.maxRetries)
             /\ config'.retryDelay = (IF o.retryDelay = Undefined THEN 1000 ELSE o.retryDelay)
             /\ EffectiveRetryDelay' = config'.retryDelay
             /\ \A k \in 0..DefaultMaxRetries : RetryAllowed(k)' <=> k < config'.maxRetries]_vars

\* C19: the configuration is set at most once.  Once an init has
\* activated the monitor, a further init call leaves the stored
\* configuration, the installed adapters and the promise wrapper as they
\* were.
C19_ConfigSetAtMostOnce ==
    [][\A o \in WideOptions :
          (config.set /\ InitMonitor(o))
          => UNCHANGED <<config, installed, wrapPromise>>]_vars

\* C20: each enable flag gates exactly its own adapter.  Under the
\* configuration of a single init, an adapter produces a global report only
\* if enableGlobalError is on, a promise report (from the unhandled-rejection
\* listener or from the promise wrapper) only if enablePromiseError is on,
\* and a console report only if enableConsoleError is on.
C20_FlagGatesOwnAdapter ==
    [][\A id \in Ids :
          (/\ inits = 1
           /\ config.set
           /\ ~Created(id)
           /\ deliveries'[id].phase # "none"
           /\ deliveries'[id].origin = "adapter")
          => /\ deliveries'[id].type = "global" => config.enableGlobalError
             /\ deliveries'[id].type = "promise" => config.enablePromiseError
             /\ deliveries'[id].type = "console" => config.enableConsoleError]_vars

\* C21: for every host run mode and build-time mode the classifier answers
\* not-production when the host reports a run mode other than default,
\* otherwise not-production when the build-time mode is development or
\* sandbox, and otherwise production.
C21_ClassifierRules ==
    (outcome.op = "getEnvironmentInfo" /\ ~outcome.raised)
    => outcome.res =
         (IF hostMode \notin {"default", "unset", "absent", "throws"} THEN "notProduction"
          ELSE IF buildMode \in {"development", "sandbox"} THEN "notProduction"
          ELSE "production")

\* C22: the classifier never raises.  With the host object absent, the host
\* query failing or the build-time mode unavailable, the call still returns
\* an answer.
C22_ClassifierNeverRaises ==
    outcome.op = "getEnvironmentInfo" => ~outcome.raised

\* C23: for a promise that resolves with V, wrapPromise gives a promise
\* that resolves with V, the statistics stay as they were and no delivery
\* is started.
C23_WrapPromiseKeepsResolution ==
    [][(\E t \in Clock : WrapPromise("resolve", t))
       => /\ outcome' = Gave("wrapPromise", "resolveV")
          /\ UNCHANGED <<errorStats, deliveries, nextId>>]_vars

\* C24: two monitor instances share nothing.  An operation on one instance
\* (init, reportError, resetErrorStats, a delivery outcome, a retry) leaves
\* the configuration and the statistics of the other instance unchanged.
C24_InstancesShareNothing ==
    [][PeerInit \/ peer' = peer]_vars

\* C25: the type and the timestamp of an envelope are set once.  At every
\* delivery attempt, the first and each retry, the formatter and the
\* transport read the type and the timestamp the envelope got at creation,
\* and the message under way carries them.
C25_TypeAndTimestampFixed ==
    \A id \in Ids :
        /\ Created(id) =>
              /\ deliveries[id].type = deliveries[id].made.type
              /\ deliveries[id].ts = deliveries[id].made.ts
        /\ deliveries[id].attempts >= 1 => deliveries[id].seen = deliveries[id].made
        /\ deliveries[id].content # NoMessage =>
              /\ deliveries[id].content.type = deliveries[id].made.type
              /\ deliveries[id].content.ts = deliveries[id].made.ts

C25_Witness ==
    \E id \in Ids :
        /\ deliveries[id].attempts >= 2
        /\ deliveries[id].phase = "await"
        /\ deliveries[id].made.ts < now
        /\ deliveries[id].seen = deliveries[id].made
        /\ deliveries[id].content.ts = deliveries[id].made.ts

\* C26: the envelope reportError builds has error equal to the payload's
\* message and stack equal to its trace when the payload is an exception,
\* and error equal to the payload itself with no stack when the payload is a
\* string or a plain structure.
C26_EnvelopeErrorAndStack ==
    [][\A ty \in {"manual"}, k \in Shapes, f \in BOOLEAN, t \in Clock :
          (ReportError(ty, k, f, t) /\ nextId' = nextId + 1)
          => LET body == deliveries'[nextId].body
             IN IF k = "Error"
                THEN body.error = "message" /\ body.stack = "raw"
                ELSE body.error = k /\ body.stack \in {"null", "absent"}]_vars

C26_Witness ==
    \E i, j \in Ids :
        /\ deliveries[i].origin = "manual"
        /\ deliveries[i].body.error = "message"
        /\ deliveries[i].body.stack = "raw"
        /\ deliveries[j].origin = "manual"
        /\ deliveries[j].body.error = "object"
        /\ deliveries[j].body.stack = "null"

\* C27: an envelope carries a type-specific optional field only when the
\* payload had it.  A field the payload lacks (method, statusCode, lineno)
\* is absent from the envelope, never the empty string or 0.
C27_AbsentFieldsStayAbsent ==
    [][\A ty \in {"manual"}, k \in Shapes, f \in BOOLEAN, t \in Clock :
          (ReportError(ty, k, f, t) /\ nextId' = nextId + 1)
          => LET body == deliveries'[nextId].body
             IN /\ body.lineno = "absent"
                /\ k # "apiError" => body.method = "absent" /\ body.statusCode = "absent"]_vars

\* C28: serializing a value that is not an exception never raises, and
\* when structured serialization fails (a circular reference) the result is
\* a non-empty string.
C28_SerializeNeverRaises ==
    [][\A v \in SerialValues \ {"Error"} :
          CallSerializeError(v)
          => /\ ~outcome'.raised
             /\ JsonStringifyThrows(v) => outcome'.res # ""]_vars

\* C29: a retry repeats the delivery from the transmit step.  When the
\* retry timer of an envelope fires, the envelope reaches the transport
\* again without a new evaluation of the gate, also when its first attempt
\* passed the gate by forceSend in a non-production environment.
C29_RetrySkipsGate ==
    [][\A id \in Ids, t \in Clock :
          TimerFire(id, t)
          => /\ deliveries'[id].phase = "await"
             /\ deliveries'[id].attempts = deliveries[id].attempts + 1]_vars

\* C30: the formatter runs once per envelope.  The message a retry hands
\* to the transport is the message of the attempt before it, whatever was
\* recorded or reset in between.
C30_RetrySendsSameMessage ==
    [][\A id \in Ids :
          (deliveries[id].phase = "timer" /\ deliveries'[id].phase = "await")
          => deliveries'[id].content = deliveries[id].content]_vars

\* C31: when the transport fails on the first k attempts of an envelope and
\* succeeds on attempt k + 1, the transport has been invoked exactly k + 1
\* times for it, the success invokes nothing more and sets no timer, and
\* the envelope is never attempted again.
C31_SuccessEndsDelivery ==
    /\ [][\A id \in Ids :
            TransportSucceed(id)
            => /\ deliveries'[id].phase = "sent"
               /\ deliveries'[id].attempts = deliveries[id].retryCount + 1
               /\ deliveries'[id].retryCount = deliveries[id].retryCount
               /\ deliveries'[id].delay = deliveries[id].delay]_vars
    /\ [][\A id \in Ids :
            deliveries[id].phase = "sent"
            => /\ deliveries'[id].phase = "sent"
               /\ deliveries'[id].attempts = deliveries[id].attempts]_vars

C31_Witness ==
    \E id \in Ids :
        /\ UnderConfig(id)
        /\ deliveries[id].phase = "sent"
        /\ deliveries[id].retryCount = 1
        /\ deliveries[id].retryCount <= config.maxRetries
        /\ deliveries[id].attempts = 2

\* C32: reportError counts the error before it hands the envelope to
\* delivery and before it returns.  When the call has returned, total and
\* the counter of the type are one higher, a message formatted in the call
\* already shows the new total, and no later step of that envelope (skipped
\* by the gate, failed, retried, dropped) lowers the count.
C32_CountedBeforeDelivery ==
    /\ [][\A f \in BOOLEAN, t \in ClockTo(MaxLater) :
            ReportError("manual", "Error", f, t)
            => /\ errorStats'["total"] = errorStats["total"] + 1
               /\ errorStats'["manual"] = OrZero(errorStats["manual"]) + 1
               /\ deliveries'[nextId].content # NoMessage
                    => deliveries'[nextId].content.block["total"] = errorStats'["total"]]_vars
    /\ [][\A id \in Ids :
            (/\ deliveries[id].origin = "manual"
             /\ deliveries'[id].phase # deliveries[id].phase)
            => /\ errorStats'["total"] >= errorStats["total"]
               /\ OrZero(errorStats'["manual"]) >= OrZero(errorStats["manual"])]_vars

C32_Witness ==
    /\ OrZero(errorStats["manual"]) >= 1
    /\ errorStats["total"] >= 2
    /\ \E id \in Ids :
          /\ deliveries[id].origin = "manual"
          /\ deliveries[id].phase = "dropped"
          /\ deliveries[id].attempts >= 1

\* C33: deliveries under way at the same time are independent.  The
\* success, the failure or the retry of one envelope leaves every other
\* existing envelope as it was: its phase, its attempt counter, its retry
\* count and its timer.  An envelope recorded later can be sent while an
\* earlier one is still retrying.
C33_DeliveriesIndependent ==
    [][\A id, j \in Ids :
          (/\ id # j
           /\ Created(j)
           /\ \/ TransportSucceed(id)
              \/ \E t \in Clock : TransportFail(id, t) \/ TimerFire(id, t))
          => deliveries'[j] = deliveries[j]]_vars

C33_Witness ==
    /\ deliveries[1].phase \in {"await", "timer"}
    /\ deliveries[1].retryCount >= 1
    /\ deliveries[2].phase = "sent"
    /\ deliveries[2].attempts = 1

\* C34: a failed delivery attempt changes no statistic.  When the transport
\* call of an envelope fails, every counter, total and lastErrorTime stay as
\* they were and no new envelope is created.
C34_FailureChangesNoStatistic ==
    [][\A id \in Ids, t \in Clock :
          TransportFail(id, t)
          => /\ errorStats' = errorStats
             /\ nextId' = nextId]_vars

\* C35: the monitor's own failure diagnostics are not captured as console
\* errors.  With console capture on, a console envelope comes only from a
\* console.error call of the application, never from a failed delivery, a
\* missing destination or a retry, so that one report causes finitely many
\* transport calls and statistics increments.
C35_OwnDiagnosticsNotCaptured ==
    [][\A id \in Ids :
          (/\ ~Created(id)
           /\ deliveries'[id].phase # "none"
           /\ deliveries'[id].type = "console")
          => \E t \in Clock : AdapterEvent("console", t)]_vars


\* C36: installing the adapters is idempotent.  However many init calls
\* have activated the monitor, one console.error call, one failed request
\* or one global error seen by the adapters adds exactly one to the total
\* and creates exactly one envelope.
C36_AdapterInstallIdempotent ==
    [][\A ev \in {"console", "request", "onerror"} :
          \A t \in Clock :
             AdapterEvent(ev, t)
             => /\ errorStats'["total"] = errorStats["total"] + 1
                /\ nextId' = nextId + 1]_vars

\* C37: the per-type counter a report increments is the counter named by
\* the type field of the envelope it hands to delivery, and the type of
\* every envelope an adapter creates, page-not-found reports included, is
\* one of the seven error types.
C37_CounterNamedByEnvelopeType ==
    [][\A id \in Ids :
          (~Created(id) /\ deliveries'[id].phase # "none")
          => /\ deliveries'[id].origin = "adapter" => deliveries'[id].type \in ErrorTypes
             /\ deliveries'[id].type \in ErrorTypes
                => errorStats'[deliveries'[id].type] > errorStats[deliveries'[id].type]]_vars

\* C38: an exception of a custom sender or a custom formatter never reaches
\* the caller of reportError and never leaves an unhandled rejection.  A
\* sender that throws is absorbed within the call that invoked it, a sender
\* whose promise is rejected or a formatter that throws is absorbed when the
\* rejection is delivered, and in each case the delivery ends as a logged
\* failure.
C38_HookExceptionsAbsorbed ==
    [][/\ (\E f \in BOOLEAN, t \in Clock : ReportError("manual", "Error", f, t))
          => ~outcome'.raised
       /\ \A id \in Ids :
             /\ deliveries'[id].phase # "unhandled"
             /\ (/\ hook = "throws"
                 /\ ~Created(id)
                 /\ deliveries'[id].via = "sender")
                => deliveries'[id].phase = "dropped"
             /\ (/\ deliveries[id].via \in {"sender", "format"}
                 /\ \E t \in Clock : TransportFail(id, t))
                => deliveries'[id].phase = "dropped"]_vars

C38_Witness ==
    /\ hook = "throws"
    /\ \E id \in Ids :
          /\ deliveries[id].via = "sender"
          /\ deliveries[id].attempts = 1
          /\ deliveries[id].phase = "dropped"
    /\ ~outcome.raised

\* C39: the request interceptor preserves the application's callbacks.
\* For every request made through the patched request function, url,
\* method, data and success reach the original request function as the
\* caller passed them; when the request fails, a fail callback of the
\* caller is called exactly once, with the original error, before any
\* network error is recorded, and the network error is recorded.
C39_InterceptorPreservesCallbacks ==
    outcome.op = "request"
    => /\ \A k \in {"url", "method", "data", "success"} :
             outcome.passed[k] = outcome.options[k]
       /\ outcome.res = "fail"
          => LET calls == outcome.calls
                 own == {i \in DOMAIN calls : calls[i].call = "fail"}
                 recorded == {i \in DOMAIN calls : calls[i].call = "_handleNetworkError"}
             IN /\ recorded # {}
                /\ \A i \in DOMAIN calls : calls[i].arg = "err"
                /\ IF outcome.options.fail = "caller"
                   THEN own = {1}
                   ELSE own = {}
       /\ outcome.res = "success"
          => outcome.calls = IF outcome.options.success = "caller"
                             THEN <<[call |-> "success", arg |-> "res"]>> ELSE <<>>

C39_Witness ==
    /\ outcome.op = "request"
    /\ outcome.res = "fail"
    /\ outcome.options.fail = "caller"
    /\ outcome.options.method = "POST"
    /\ installed.request = 2
    /\ Len(outcome.calls) = 3
    /\ errorStats["network"] = 2

\* C40: in every reachable state lastErrorTime is null (0 in this model,
\* where the clock starts at 1) exactly when total is 0: both at
\* construction and right after resetErrorStats, neither after a recorded
\* error.
C40_LastErrorTimeNullIffNoErrors ==
    errorStats["lastErrorTime"] = 0 <=> errorStats["total"] = 0

\* After a report, a reset and another report: two envelopes, a total of one.
C40_Witness ==
    /\ nextId = 3
    /\ errorStats["total"] = 1
    /\ errorStats["manual"] = 1
    /\ errorStats["lastErrorTime"] > 0
====
